---- MODULE Spec2Model ----
(***************************************************************************)
(* A model of the IMBIE series classes: MassRateDataSeries (dM/dt over      *)
(* intervals), WorkingMassRateDataSeries (point-sampled dM/dt) and          *)
(* MassChangeDataSeries (cumulative dM), and of the operations on them:     *)
(* merge, the windowing mutators and integrate.                             *)
(*                                                                          *)
(* Conventions.  A numpy array is a sequence; Python's index i is i+1 here. *)
(* Python's None is NoneUser for a name and NoneArr for an array.  An       *)
(* array attribute that may be None (the area) is an option record          *)
(* [some, v].  A call returns RetNone, RetSeries(s) or Raise(exc).          *)
(* Numbers are integers: the value domains are chosen so that every         *)
(* division by two and every square root the code takes is exact.           *)
(***************************************************************************)
EXTENDS Integers, Sequences, FiniteSets, TLC

VARIABLES pc,      \* position of the caller: "start", then one value per call made
          a, b,    \* the two arguments of merge
          self,    \* the series a method is called on (mutated in place by windowing)
          old,     \* self as it was before the first call
          min_t,   \* argument of _set_min_time
          max_t,   \* argument of _set_max_time
          offset,  \* argument of integrate
          ret,     \* what the last call returned or raised
          mass_data, \* argument of derive_rates (its time array is shared with the result)
          chunks,  \* the chunk lists chunk_rates hands to ts_combine
          config,      \* process: the configuration it is called with
          input_data,  \* process: the collections it is called with
          rate_collection, \* process: the working rate collection rate_data
          collections, \* process: the eight output collections, by name
          loop,        \* process: the position of each loop
          sheets,      \* process: the list bound to the name sheets
          files,       \* process: the per-region data files written
          output_path, \* process: the directory at config.output_path
          old_path,    \* process: that directory as it was when process was called
          tab,         \* tabulate: the arguments data and headers of the call
          lines        \* tabulate: the lines yielded; save_data: the rows written

process_vars == <<config, input_data, rate_collection, collections, loop, sheets, files, output_path, old_path>>
output_vars == <<tab, lines>>
vars == <<pc, a, b, self, old, min_t, max_t, offset, ret, mass_data, chunks, process_vars, output_vars>>

\* Longest array of an input series.
MaxLen == 2

---------------------------------------------------------------------------
\* Python values

NoneUser == "<None>"
NoneArr == [some |-> FALSE, v |-> <<>>]
Some(arr) == [some |-> TRUE, v |-> arr]
NoneOffset == "None"
NoSeries == [cls |-> "none"]

RetNone == [kind |-> "None", exc |-> "", s |-> NoSeries]
RetSeries(s) == [kind |-> "series", exc |-> "", s |-> s]
Raise(exc) == [kind |-> "raise", exc |-> exc, s |-> NoSeries]
\* no chunk list built
NoChunks == [time_chunks |-> <<>>, dmdt_chunks |-> <<>>, errs_chunks |-> <<>>]
\* process not called
NoProcess ==
    /\ config = [include_la |-> FALSE, methods_skip |-> {}, export_data |-> FALSE, align_date |-> NoneOffset]
    /\ input_data = <<>> /\ rate_collection = <<>> /\ collections = <<>>
    /\ loop = <<>> /\ sheets = <<>> /\ files = <<>>
    /\ output_path = <<>> /\ old_path = <<>>
\* tabulate not called
NoOutput == tab = <<>> /\ lines = <<>>
NoCall == [kind |-> "nocall", exc |-> "", s |-> NoSeries]

\* BasinGroup members; BasinGroup.sheets is the unified scheme.
BasinGroup_sheets == "sheets"
BasinGroup == {"zwally", "rignot", BasinGroup_sheets}

---------------------------------------------------------------------------
\* numpy

\* arr[idx] with idx an array of indices
Take(arr, idx) == [k \in 1..Len(idx) |-> arr[idx[k]]]

\* x + y and x / 2. on arrays of one length
AddArr(x, y) == [k \in 1..Len(x) |-> x[k] + y[k]]
HalfArr(x) == [k \in 1..Len(x) |-> x[k] \div 2]

\* np.square, np.sqrt (exact: the argument is a perfect square in every use)
Square(x) == [k \in 1..Len(x) |-> x[k] * x[k]]
SqrtNum(n) == CHOOSE r \in 0..n : r * r = n
Sqrt(x) == [k \in 1..Len(x) |-> SqrtNum(x[k])]

---------------------------------------------------------------------------
\* imbie2.util.functions.match: the indices at which two ascending arrays
\* hold equal times, in ascending time order, first occurrence of each time.

SetMin(S) == CHOOSE m \in S : \A x \in S : m <= x

RECURSIVE SortedSeq(_)
SortedSeq(S) == IF S = {} THEN <<>>
                ELSE <<SetMin(S)>> \o SortedSeq(S \ {SetMin(S)})

Elems(t) == {t[i] : i \in 1..Len(t)}

FirstIdx(t, v) == CHOOSE i \in 1..Len(t) : t[i] = v /\ \A j \in 1..(i - 1) : t[j] /= v

match(ta, tb) ==
    LET c == SortedSeq(Elems(ta) \cap Elems(tb))
    IN  [ia |-> [k \in 1..Len(c) |-> FirstIdx(ta, c[k])],
         ib |-> [k \in 1..Len(c) |-> FirstIdx(tb, c[k])]]

\* imbie2.util.functions.ts2m on a series that already lies on the monthly grid
ts2m(time, y) == <<time, y>>

---------------------------------------------------------------------------
\* The series classes

\* DataSeries.__init__: the identity record every series carries
DataSeries(user, user_group, data_group, basin_group, basin_id, basin_area, computed, merged, aggregated) ==
    [user |-> user, user_group |-> user_group, data_group |-> data_group,
     basin_group |-> basin_group, basin_id |-> basin_id, basin_area |-> basin_area,
     computed |-> computed, merged |-> merged, aggregated |-> aggregated]

MassRateDataSeries(user, user_group, data_group, basin_group, basin_id, basin_area, t_start, t_end, area, rate, errs, computed, merged, aggregated) ==
    LET base == DataSeries(user, user_group, data_group, basin_group, basin_id,
                           basin_area, computed, merged, aggregated)
    IN  [cls |-> "MassRateDataSeries", id |-> base,
         t0 |-> t_start, t1 |-> t_end, dmdt |-> rate, errs |-> errs, a |-> area]

WorkingMassRateDataSeries(user, user_group, data_group, basin_group, basin_id, basin_area, time, area, dmdt, errs, computed, merged, aggregated) ==
    LET base == DataSeries(user, user_group, data_group, basin_group, basin_id,
                           basin_area, computed, merged, aggregated)
    IN  [cls |-> "WorkingMassRateDataSeries", id |-> base,
         t |-> time, a |-> area, dmdt |-> dmdt, errs |-> errs]

\* The constructor takes no aggregated flag: the base class's default stands.
MassChangeDataSeries(user, user_group, data_group, basin_group, basin_id, basin_area, time, area, mass, errs, computed, merged) ==
    LET base == DataSeries(user, user_group, data_group, basin_group, basin_id,
                           basin_area, computed, merged, FALSE)
    IN  [cls |-> "MassChangeDataSeries", id |-> base,
         t |-> ts2m(time, mass)[1], dM |-> ts2m(time, mass)[2],
         a |-> ts2m(time, area)[2], dM_err |-> ts2m(time, errs)[2]]

\* __len__ of the three classes
RateLen(s) == Len(s.t0)
WorkLen(s) == Len(s.t)
MassLen(s) == Len(s.t)

---------------------------------------------------------------------------
\* merge

\* the halving forgotten
MergeValue_sum(va, vb) == AddArr(va, vb)

\* m = (a.dmdt[ia] + b.dmdt[ib]) / 2.
MergeValue(va, vb) == HalfArr(AddArr(va, vb))

\* e = np.sqrt((np.square(a.errs[ia]) + np.square(b.errs[ib])) / 2.)
MergeError(ea, eb) == Sqrt(HalfArr(AddArr(Square(ea), Square(eb))))

\* the first argument's area kept
MergeArea_first(aa, ab) == aa

\* ar = (a.a[ia] + b.a[ib]) / 2.
MergeArea(aa, ab) == HalfArr(AddArr(aa, ab))

\* comp = a.computed or b.computed; aggr = a.aggregated or b.aggregated
MergeFlag(fa, fb) == fa \/ fb

\* the first argument's basin scheme kept
MergedHeader_keepScheme(x) == [user |-> x.id.user, user_group |-> x.id.user_group, data_group |-> x.id.data_group, basin_group |-> x.id.basin_group, basin_id |-> x.id.basin_id, basin_area |-> x.id.basin_area, merged |-> TRUE]

\* the identity a merged series is built with: the first argument's, in the
\* unified scheme, marked merged
MergedHeader(x) == [user |-> x.id.user, user_group |-> x.id.user_group, data_group |-> x.id.data_group, basin_group |-> BasinGroup_sheets, basin_id |-> x.id.basin_id, basin_area |-> x.id.basin_area, merged |-> TRUE]

MassRateDataSeries_merge(x, y) ==
    LET m == match(x.t0, y.t0)
        ia == m.ia
        ib == m.ib
    IN  IF RateLen(x) /= RateLen(y) THEN RetNone
        ELSE IF Len(ia) /= RateLen(x) \/ Len(ib) /= RateLen(y) THEN RetNone
        ELSE LET t0 == Take(x.t0, ia)
                 t1 == Take(x.t1, ia)
                 mm == MergeValue(Take(x.dmdt, ia), Take(y.dmdt, ib))
                 e == MergeError(Take(x.errs, ia), Take(y.errs, ib))
                 ar == MergeArea(Take(x.a.v, ia), Take(y.a.v, ib))
                 comp == MergeFlag(x.id.computed, y.id.computed)
                 aggr == MergeFlag(x.id.aggregated, y.id.aggregated)
                 h == MergedHeader(x)
             IN  RetSeries(MassRateDataSeries(
                     h.user, h.user_group, h.data_group, h.basin_group,
                     h.basin_id, h.basin_area, t0, t1, Some(ar), mm, e,
                     comp, h.merged, aggr))

\* a.user.lower() is evaluated before anything is returned: a series whose
\* user is None raises AttributeError.  The prints change no state.
WorkingMassRateDataSeries_merge(x, y) ==
    LET m == match(x.t, y.t)
        ia == m.ia
        ib == m.ib
    IN  IF x.id.user = NoneUser THEN Raise("AttributeError")
        ELSE IF WorkLen(x) /= WorkLen(y) THEN RetNone
        ELSE IF Len(ia) /= WorkLen(x) \/ Len(ib) /= WorkLen(y) THEN RetNone
        ELSE LET t == Take(x.t, ia)
                 mm == MergeValue(Take(x.dmdt, ia), Take(y.dmdt, ib))
                 e == MergeError(Take(x.errs, ia), Take(y.errs, ib))
                 ar == NoneArr
                 comp == MergeFlag(x.id.computed, y.id.computed)
                 aggr == MergeFlag(x.id.aggregated, y.id.aggregated)
                 h == MergedHeader(x)
             IN  RetSeries(WorkingMassRateDataSeries(
                     h.user, h.user_group, h.data_group, h.basin_group,
                     h.basin_id, h.basin_area, t, ar, mm, e,
                     comp, h.merged, aggr))

MassChangeDataSeries_merge(x, y) ==
    LET m == match(x.t, y.t)
        ia == m.ia
        ib == m.ib
    IN  IF MassLen(x) /= MassLen(y) THEN RetNone
        ELSE IF Len(ia) /= MassLen(x) \/ Len(ib) /= MassLen(y) THEN RetNone
        ELSE IF Len(ia) = 0 THEN RetNone
        ELSE LET t == Take(x.t, ia)
                 mm == MergeValue(Take(x.dM, ia), Take(y.dM, ib))
                 e == MergeError(Take(x.dM_err, ia), Take(y.dM_err, ib))
                 ar == MergeArea(Take(x.a.v, ia), Take(y.a.v, ib))
                 comp == MergeFlag(x.id.computed, y.id.computed)
                 h == MergedHeader(x)
             IN  RetSeries(MassChangeDataSeries(
                     h.user, h.user_group, h.data_group, h.basin_group,
                     h.basin_id, h.basin_area, t, Some(ar), mm, e,
                     comp, h.merged))

---------------------------------------------------------------------------
\* Windowing of a MassRateDataSeries.  The loop writes the clipped bound
\* into the array in place; the five arrays are then rebound to their
\* selections by the mask ok.

\* arr[ok] with ok an array of booleans
Mask(arr, ok) ==
    LET F[i \in 0..Len(arr)] ==
            IF i = 0 THEN <<>>
            ELSE IF ok[i] THEN Append(F[i - 1], arr[i]) ELSE F[i - 1]
    IN  F[Len(arr)]

\* the bound left as it was
ClipLow_keep(t0, m) == t0

\* if t0 < min_t: self.t0[i] = min_t
ClipLow(t0, m) == IF t0 < m THEN m ELSE t0

\* if self.t1[i] < min_t: ok[i] = False
KeepLow(t1, m) == ~(t1 < m)

\* the bound left as it was
ClipHigh_keep(t1, m) == t1

\* if t1 > max_t: self.t1[i] = max_t
ClipHigh(t1, m) == IF t1 > m THEN m ELSE t1

\* if self.t0[i] > max_t: ok[i] = False
KeepHigh(t0, m) == ~(t0 > m)

MassRateDataSeries_set_min_time(s, m) ==
    LET n == Len(s.t0)
        t0w == [i \in 1..n |-> ClipLow(s.t0[i], m)]
        ok == [i \in 1..n |-> KeepLow(s.t1[i], m)]
    IN  [s EXCEPT !.t0 = Mask(t0w, ok), !.t1 = Mask(s.t1, ok),
                  !.dmdt = Mask(s.dmdt, ok), !.errs = Mask(s.errs, ok),
                  !.a = Some(Mask(s.a.v, ok))]

MassRateDataSeries_set_max_time(s, m) ==
    LET n == Len(s.t0)
        t1w == [i \in 1..n |-> ClipHigh(s.t1[i], m)]
        ok == [i \in 1..n |-> KeepHigh(s.t0[i], m)]
    IN  [s EXCEPT !.t0 = Mask(s.t0, ok), !.t1 = Mask(t1w, ok),
                  !.dmdt = Mask(s.dmdt, ok), !.errs = Mask(s.errs, ok),
                  !.a = Some(Mask(s.a.v, ok))]

---------------------------------------------------------------------------
\* integrate.  A method call looks attributes up by name; the classes above
\* define dmdt and errs, and the working series has no t0 or t1.

HasAttr(s, name) == name \in DOMAIN s

\* np.cumsum
CumSum(x) ==
    LET F[i \in 0..Len(x)] == IF i = 0 THEN 0 ELSE F[i - 1] + x[i]
    IN  [k \in 1..Len(x) |-> F[k]]

\* MassChangeDataSeries.accumulate_mass(rate_data): the body
MassChangeDataSeries_accumulate_mass(rate_data) ==
    IF ~(HasAttr(rate_data, "t0") /\ HasAttr(rate_data, "t1")) THEN Raise("AttributeError")
    ELSE IF ~HasAttr(rate_data, "dMdt") THEN Raise("AttributeError")
    ELSE IF ~HasAttr(rate_data, "dMdt_err") THEN Raise("AttributeError")
    ELSE LET t == HalfArr(AddArr(rate_data.t0, rate_data.t1))
             dM == CumSum(rate_data.dMdt)
         IN  RetSeries(MassChangeDataSeries(
                 rate_data.id.user, rate_data.id.user_group, rate_data.id.data_group,
                 rate_data.id.basin_group, rate_data.id.basin_id, rate_data.id.basin_area,
                 t, rate_data.a, dM, rate_data.dMdt_err, TRUE, FALSE))

\* The call accumulate_mass(rate_data, **keywords): the function declares the
\* one parameter rate_data, so any keyword argument is a TypeError.
CallAccumulateMass(rate_data, keywords) ==
    IF keywords /= {} THEN Raise("TypeError")
    ELSE MassChangeDataSeries_accumulate_mass(rate_data)

\* MassRateDataSeries.integrate and WorkingMassRateDataSeries.integrate: both
\* pass offset=offset, whatever its value.
MassRateDataSeries_integrate(s, off) == CallAccumulateMass(s, {"offset"})
WorkingMassRateDataSeries_integrate(s, off) == CallAccumulateMass(s, {"offset"})

---------------------------------------------------------------------------
\* Input series

\* Times on the monthly grid, and the (rate or mass, error, area) of a sample.
Times == 1..3
Samples == {[v |-> 0, e |-> 1, ar |-> 2],
            [v |-> 2, e |-> 7, ar |-> 4],
            [v |-> 4, e |-> 1, ar |-> 4]}

LowSample == CHOOSE s \in Samples : s.v = 0
HighSample == CHOOSE s \in Samples : s.v = 2

\* Who supplied a series, and for which basin.
Profiles == {[user |-> NoneUser, user_group |-> "RA", data_group |-> "dmdt", basin_id |-> "apis", basin_area |-> 10],
             [user |-> "helm", user_group |-> "RA", data_group |-> "dm", basin_id |-> "eais", basin_area |-> 20],
             [user |-> "zwally", user_group |-> "GMB", data_group |-> "dmdt", basin_id |-> "wais", basin_area |-> 30]}
PlainProfile == CHOOSE p \in Profiles : p.user = "zwally"
Flags == [basin_group : BasinGroup, computed : BOOLEAN, aggregated : BOOLEAN]
PlainFlags == [basin_group |-> "zwally", computed |-> FALSE, aggregated |-> FALSE]

Lens == 0..MaxLen
AscSeqs(n) == {t \in [1..n -> Times] : \A i \in 1..(n - 1) : t[i] <= t[i + 1]}
StrictSeqs(n) == {t \in [1..n -> Times] : \A i \in 1..(n - 1) : t[i] < t[i + 1]}
SampleSeqs(n) == [1..n -> Samples]
Grid(n) == [k \in 1..n |-> k]

ValuesOf(ss) == [k \in 1..Len(ss) |-> ss[k].v]
ErrorsOf(ss) == [k \in 1..Len(ss) |-> ss[k].e]
AreasOf(ss) == [k \in 1..Len(ss) |-> ss[k].ar]
Shift(t, w) == [k \in 1..Len(t) |-> t[k] + w]

\* A series as the loader builds it: interval k is [t[k], t[k] + w].
RateInput(p, f, t, w, ss) == MassRateDataSeries(p.user, p.user_group, p.data_group, f.basin_group, p.basin_id, p.basin_area, t, Shift(t, w), Some(AreasOf(ss)), ValuesOf(ss), ErrorsOf(ss), f.computed, FALSE, f.aggregated)

WorkInput(p, f, t, area, ss) == WorkingMassRateDataSeries(p.user, p.user_group, p.data_group, f.basin_group, p.basin_id, p.basin_area, t, area, ValuesOf(ss), ErrorsOf(ss), f.computed, FALSE, f.aggregated)

\* The constructor leaves aggregated False; the flag is a plain attribute of
\* the identity record and is assigned afterwards.
MassInput(p, f, t, ss) == [MassChangeDataSeries(p.user, p.user_group, p.data_group, f.basin_group, p.basin_id, p.basin_area, t, Some(AreasOf(ss)), ValuesOf(ss), ErrorsOf(ss), f.computed, FALSE) EXCEPT !.id.aggregated = f.aggregated]

---------------------------------------------------------------------------
\* Specification of merge: two series of one class are drawn, then merged.

Idle == /\ self = NoSeries /\ old = NoSeries /\ min_t = 0 /\ max_t = 0 /\ offset = NoneOffset

\* every array content, one identity
InitMergeArrays ==
    \/ \E na \in Lens, nb \in Lens :
         \E ta \in AscSeqs(na), tb \in AscSeqs(nb), sa \in SampleSeqs(na), sb \in SampleSeqs(nb) :
            /\ a = RateInput(PlainProfile, PlainFlags, ta, 0, sa)
            /\ b = RateInput(PlainProfile, PlainFlags, tb, 1, sb)
    \/ \E na \in Lens, nb \in Lens, p \in Profiles :
         \E ta \in StrictSeqs(na), tb \in StrictSeqs(nb), sa \in SampleSeqs(na), sb \in SampleSeqs(nb) :
            /\ a = WorkInput(p, PlainFlags, ta, Some(AreasOf(sa)), sa)
            /\ b = WorkInput(PlainProfile, PlainFlags, tb, Some(AreasOf(sb)), sb)
    \/ \E na \in Lens, nb \in Lens :
         \E ta \in StrictSeqs(na), tb \in StrictSeqs(nb), sa \in SampleSeqs(na), sb \in SampleSeqs(nb) :
            /\ a = MassInput(PlainProfile, PlainFlags, ta, sa)
            /\ b = MassInput(PlainProfile, PlainFlags, tb, sb)

\* every identity, arrays on one grid
InitMergeIdentity ==
    \E n \in Lens, pa \in Profiles, pb \in Profiles, fa \in Flags, fb \in Flags :
      \E sa \in {[k \in 1..n |-> LowSample]}, sb \in {[k \in 1..n |-> HighSample]} :
        \/ \E wa \in 0..1, wb \in 0..1 :
             /\ a = RateInput(pa, fa, Grid(n), wa, sa)
             /\ b = RateInput(pb, fb, Grid(n), wb, sb)
        \/ /\ a = WorkInput(pa, fa, Grid(n), NoneArr, sa)
           /\ b = WorkInput(pb, fb, Grid(n), Some(AreasOf(sb)), sb)
        \/ /\ a = MassInput(pa, fa, Grid(n), sa)
           /\ b = MassInput(pb, fb, Grid(n), sb)

InitMerge ==
    /\ pc = "start"
    /\ mass_data = NoSeries
    /\ ret = NoCall
    /\ Idle
    /\ (InitMergeArrays \/ InitMergeIdentity)
    /\ chunks = NoChunks
    /\ NoProcess
    /\ NoOutput

MergeRate ==
    /\ pc = "start"
    /\ a.cls = "MassRateDataSeries"
    /\ ret' = MassRateDataSeries_merge(a, b)
    /\ pc' = "merged"
    /\ UNCHANGED <<a, b, self, old, min_t, max_t, offset>>
    /\ UNCHANGED mass_data
    /\ UNCHANGED chunks
    /\ UNCHANGED process_vars
    /\ UNCHANGED output_vars

MergeWork ==
    /\ pc = "start"
    /\ a.cls = "WorkingMassRateDataSeries"
    /\ ret' = WorkingMassRateDataSeries_merge(a, b)
    /\ pc' = "merged"
    /\ UNCHANGED <<a, b, self, old, min_t, max_t, offset>>
    /\ UNCHANGED mass_data
    /\ UNCHANGED chunks
    /\ UNCHANGED process_vars
    /\ UNCHANGED output_vars

MergeMass ==
    /\ pc = "start"
    /\ a.cls = "MassChangeDataSeries"
    /\ ret' = MassChangeDataSeries_merge(a, b)
    /\ pc' = "merged"
    /\ UNCHANGED <<a, b, self, old, min_t, max_t, offset>>
    /\ UNCHANGED mass_data
    /\ UNCHANGED chunks
    /\ UNCHANGED process_vars
    /\ UNCHANGED output_vars

NextMerge == MergeRate \/ MergeWork \/ MergeMass

SpecMerge == InitMerge /\ [][NextMerge]_vars

---------------------------------------------------------------------------
\* Specification of windowing: a rate series is windowed to [min_t, max_t]
\* by _set_min_time, then _set_max_time.

\* Times in half years: a year, and the middle of a year.
Year(y) == 2 * y
MidYear(y) == 2 * y + 1
WindowTimes == {Year(1990), Year(1991), Year(1999), MidYear(1999), Year(2000), MidYear(2000)}
Intervals == {iv \in [t0 : WindowTimes, t1 : WindowTimes] : iv.t0 <= iv.t1}

\* Sample i carries rate 10 i, error i and area 100 + i, so that a sample
\* can be told from the others after a selection.
IntervalSeries(ivs) == MassRateDataSeries(PlainProfile.user, PlainProfile.user_group, PlainProfile.data_group, PlainFlags.basin_group, PlainProfile.basin_id, PlainProfile.basin_area, [i \in 1..Len(ivs) |-> ivs[i].t0], [i \in 1..Len(ivs) |-> ivs[i].t1], Some([i \in 1..Len(ivs) |-> 100 + i]), [i \in 1..Len(ivs) |-> 10 * i], [i \in 1..Len(ivs) |-> i], FALSE, FALSE, FALSE)

InitWindow ==
    /\ pc = "start"
    /\ mass_data = NoSeries
    /\ ret = NoCall
    /\ a = NoSeries /\ b = NoSeries
    /\ \E n \in Lens : \E ivs \in [1..n -> Intervals] : self = IntervalSeries(ivs)
    /\ old = self
    /\ min_t \in WindowTimes
    /\ max_t \in WindowTimes
    /\ min_t <= max_t
    /\ offset = NoneOffset
    /\ chunks = NoChunks
    /\ NoProcess
    /\ NoOutput

SetMinTime ==
    /\ pc = "start"
    /\ self' = MassRateDataSeries_set_min_time(self, min_t)
    /\ pc' = "min_set"
    /\ UNCHANGED <<a, b, old, min_t, max_t, offset, ret>>
    /\ UNCHANGED mass_data
    /\ UNCHANGED chunks
    /\ UNCHANGED process_vars
    /\ UNCHANGED output_vars

SetMaxTime ==
    /\ pc = "min_set"
    /\ self' = MassRateDataSeries_set_max_time(self, max_t)
    /\ pc' = "max_set"
    /\ UNCHANGED <<a, b, old, min_t, max_t, offset, ret>>
    /\ UNCHANGED mass_data
    /\ UNCHANGED chunks
    /\ UNCHANGED process_vars
    /\ UNCHANGED output_vars

NextWindow == SetMinTime \/ SetMaxTime

SpecWindow == InitWindow /\ [][NextWindow]_vars

---------------------------------------------------------------------------
\* Specification of integrate: a rate series or a working rate series is
\* drawn and integrated, with or without an alignment offset.

Offsets == {NoneOffset, "align_date"}

InitIntegrate ==
    /\ pc = "start"
    /\ mass_data = NoSeries
    /\ ret = NoCall
    /\ a = NoSeries /\ b = NoSeries
    /\ old = NoSeries /\ min_t = 0 /\ max_t = 0
    /\ offset \in Offsets
    /\ \E n \in Lens, p \in Profiles, f \in Flags :
         \E ss \in SampleSeqs(n) :
            \/ \E w \in 0..1 : self = RateInput(p, f, Grid(n), w, ss)
            \/ self = WorkInput(p, f, Grid(n), Some(AreasOf(ss)), ss)
    /\ chunks = NoChunks
    /\ NoProcess
    /\ NoOutput

IntegrateRate ==
    /\ pc = "start"
    /\ self.cls = "MassRateDataSeries"
    /\ ret' = MassRateDataSeries_integrate(self, offset)
    /\ pc' = "integrated"
    /\ UNCHANGED <<a, b, self, old, min_t, max_t, offset>>
    /\ UNCHANGED mass_data
    /\ UNCHANGED chunks
    /\ UNCHANGED process_vars
    /\ UNCHANGED output_vars

IntegrateWork ==
    /\ pc = "start"
    /\ self.cls = "WorkingMassRateDataSeries"
    /\ ret' = WorkingMassRateDataSeries_integrate(self, offset)
    /\ pc' = "integrated"
    /\ UNCHANGED <<a, b, self, old, min_t, max_t, offset>>
    /\ UNCHANGED mass_data
    /\ UNCHANGED chunks
    /\ UNCHANGED process_vars
    /\ UNCHANGED output_vars

\* the class method called directly, with the series alone
AccumulateMass ==
    /\ pc = "start"
    /\ ret' = CallAccumulateMass(self, {})
    /\ pc' = "accumulated"
    /\ UNCHANGED <<a, b, self, old, min_t, max_t, offset>>
    /\ UNCHANGED mass_data
    /\ UNCHANGED chunks
    /\ UNCHANGED process_vars
    /\ UNCHANGED output_vars

NextIntegrate == IntegrateRate \/ IntegrateWork \/ AccumulateMass

SpecIntegrate == InitIntegrate /\ [][NextIntegrate]_vars

---------------------------------------------------------------------------
\* Properties of merge (under SpecMerge)

TimeOf(s) == IF s.cls = "MassRateDataSeries" THEN s.t0 ELSE s.t
ValueOf(s) == IF s.cls = "MassChangeDataSeries" THEN s.dM ELSE s.dmdt
ErrorOf(s) == IF s.cls = "MassChangeDataSeries" THEN s.dM_err ELSE s.errs

MergeOf(x, y) ==
    IF x.cls = "MassRateDataSeries" THEN MassRateDataSeries_merge(x, y)
    ELSE IF x.cls = "WorkingMassRateDataSeries" THEN WorkingMassRateDataSeries_merge(x, y)
    ELSE MassChangeDataSeries_merge(x, y)

Merged == pc = "merged"
MergedSeries == Merged /\ ret.kind = "series"
Matched == match(TimeOf(a), TimeOf(b))
SameLength == Len(TimeOf(a)) = Len(TimeOf(b))
FullyCovered == /\ Len(Matched.ia) = Len(TimeOf(a))
                /\ Len(Matched.ib) = Len(TimeOf(b))

\* C1: merge returns None, and raises nothing, whenever the two series differ
\* in length or match does not cover every sample of both; it returns a
\* series only when they have equal length and are fully covered.
C1_NoneOnMismatch ==
    Merged => /\ (~SameLength \/ ~FullyCovered) => ret = RetNone
              /\ ret.kind = "series" => (SameLength /\ FullyCovered)

\* C2: in a merged series, at every matched index pair the value is the mean
\* of the two inputs' values and the squared error is the mean of the two
\* inputs' squared errors.
C2_MeanAndQuadrature ==
    MergedSeries =>
        LET ia == Matched.ia
            ib == Matched.ib
            r == ret.s
        IN  /\ Len(ValueOf(r)) = Len(ia)
            /\ Len(ErrorOf(r)) = Len(ia)
            /\ \A k \in 1..Len(ia) :
                 /\ 2 * ValueOf(r)[k] = ValueOf(a)[ia[k]] + ValueOf(b)[ib[k]]
                 /\ 2 * ErrorOf(r)[k] * ErrorOf(r)[k]
                      = ErrorOf(a)[ia[k]] * ErrorOf(a)[ia[k]]
                        + ErrorOf(b)[ib[k]] * ErrorOf(b)[ib[k]]
                 /\ ErrorOf(r)[k] >= 0

C2_Witness ==
    /\ MergedSeries
    /\ a.cls = "MassChangeDataSeries"
    /\ Len(ValueOf(ret.s)) >= 2
    /\ ValueOf(a)[1] /= ValueOf(b)[1]
    /\ ErrorOf(a)[2] /= ErrorOf(b)[2]

AreaIsMean ==
    LET ia == Matched.ia
        ib == Matched.ib
        r == ret.s
    IN  /\ r.a.some
        /\ Len(r.a.v) = Len(ia)
        /\ \A k \in 1..Len(ia) : 2 * r.a.v[k] = a.a.v[ia[k]] + b.a.v[ib[k]]

C4_FlagsOr ==
    MergedSeries =>
        /\ ret.s.id.computed = (a.id.computed \/ b.id.computed)
        /\ ret.s.id.aggregated = (a.id.aggregated \/ b.id.aggregated)

\* C5: a merged series is in the unified basin scheme and marked merged,
\* whatever the inputs' schemes; contributor, technique group, data group,
\* basin id and basin area are the first argument's.
C5_UnifiedSchemeFirstIdentity ==
    MergedSeries =>
        /\ ret.s.id.basin_group = BasinGroup_sheets
        /\ ret.s.id.merged = TRUE
        /\ ret.s.id.user = a.id.user
        /\ ret.s.id.user_group = a.id.user_group
        /\ ret.s.id.data_group = a.id.data_group
        /\ ret.s.id.basin_id = a.id.basin_id
        /\ ret.s.id.basin_area = a.id.basin_area

C5_Witness ==
    /\ MergedSeries
    /\ a.id.basin_group = "zwally"
    /\ b.id.basin_group = "rignot"
    /\ a.id.user /= b.id.user
    /\ a.id.basin_id /= b.id.basin_id
    /\ Len(TimeOf(ret.s)) >= 1

\* C6: merge(a, b) is absent exactly when merge(b, a) is absent, and
\* otherwise both are series with identical values and identical errors.
C6_Commutative ==
    Merged =>
        LET rev == MergeOf(b, a)
        IN  /\ (ret = RetNone) <=> (rev = RetNone)
            /\ ret /= RetNone =>
                 /\ ret.kind = "series"
                 /\ rev.kind = "series"
                 /\ ValueOf(ret.s) = ValueOf(rev.s)
                 /\ ErrorOf(ret.s) = ErrorOf(rev.s)

\* C7: when match finds no common time (both series empty included), merge
\* returns None and does not raise, in all three classes.
C7_NoneOnNoOverlap ==
    (Merged /\ Len(Matched.ia) = 0) => ret = RetNone

---------------------------------------------------------------------------
\* Properties of windowing (under SpecWindow)

Windowed == pc = "max_set"

InWindow(i) == old.t1[i] >= min_t /\ old.t0[i] <= max_t
Kept == SelectSeq([i \in 1..Len(old.t0) |-> i], InWindow)
Max(x, y) == IF x >= y THEN x ELSE y
Min(x, y) == IF x <= y THEN x ELSE y

\* C8: windowing to [min_t, max_t] keeps exactly the samples with
\* t1 >= min_t and t0 <= max_t, in order, with bounds max(t0, min_t) and
\* min(t1, max_t); t0 <= t1 still holds and the five arrays (here with the
\* retained samples' own rate, error and area) have one length.
C8_WindowClips ==
    Windowed =>
        /\ self.t0 = [k \in 1..Len(Kept) |-> Max(old.t0[Kept[k]], min_t)]
        /\ self.t1 = [k \in 1..Len(Kept) |-> Min(old.t1[Kept[k]], max_t)]
        /\ self.dmdt = [k \in 1..Len(Kept) |-> old.dmdt[Kept[k]]]
        /\ self.errs = [k \in 1..Len(Kept) |-> old.errs[Kept[k]]]
        /\ self.a = Some([k \in 1..Len(Kept) |-> old.a.v[Kept[k]]])
        /\ \A k \in 1..Len(self.t0) : self.t0[k] <= self.t1[k]

\* a sample clipped at each end, and a sample removed
C8_Witness ==
    /\ Windowed
    /\ Len(old.t0) >= 2
    /\ Len(self.t0) = 1
    /\ \E i \in 1..Len(old.t0) :
         /\ old.t0[i] < min_t /\ old.t1[i] > max_t
         /\ self.t0 = <<min_t>> /\ self.t1 = <<max_t>>

SingleInterval(t0, t1) == old.t0 = <<t0>> /\ old.t1 = <<t1>>
WindowIs(m, M) == min_t = m /\ max_t = M

\* C9 as claimed: the interval [1999, 2000] windowed to [1999.5, 2000.5]
\* is retained with bounds [1999.5, 2000.5]; [1990, 1991] is removed.
C9_ClippedToWindowEnds ==
    (Windowed /\ WindowIs(MidYear(1999), MidYear(2000))) =>
        /\ SingleInterval(Year(1999), Year(2000)) =>
             (self.t0 = <<MidYear(1999)>> /\ self.t1 = <<MidYear(2000)>>)
        /\ SingleInterval(Year(1990), Year(1991)) => Len(self.t0) = 0

\* C9: the interval [1999, 2000] windowed to [1999.5, 2000.5] is retained
\* with bounds [1999.5, 2000] (its start clipped, its end its own);
\* [1990, 1991] is removed.
C9_ClippedToOwnEnd ==
    (Windowed /\ WindowIs(MidYear(1999), MidYear(2000))) =>
        /\ SingleInterval(Year(1999), Year(2000)) =>
             (self.t0 = <<MidYear(1999)>> /\ self.t1 = <<Year(2000)>>
              /\ Len(self.dmdt) = 1 /\ Len(self.errs) = 1 /\ Len(self.a.v) = 1)
        /\ SingleInterval(Year(1990), Year(1991)) =>
             (Len(self.t0) = 0 /\ Len(self.t1) = 0 /\ Len(self.dmdt) = 0)

C9_Witness ==
    /\ Windowed
    /\ WindowIs(MidYear(1999), MidYear(2000))
    /\ SingleInterval(Year(1999), Year(2000))
    /\ Len(self.t0) = 1

---------------------------------------------------------------------------
\* Properties of integrate (under SpecIntegrate)

Integrated == pc = "integrated"

\* C10: integrate returns a mass series with one sample per rate sample,
\* whose k-th mass is the sum of the first k rates times the grid step
\* (a twelfth of a year).
C10_RunningSumTimesStep ==
    Integrated =>
        /\ ret.kind = "series"
        /\ ret.s.cls = "MassChangeDataSeries"
        /\ Len(ret.s.dM) = Len(self.dmdt)
        /\ \A k \in 1..Len(self.dmdt) :
             12 * ret.s.dM[k] = CumSum(self.dmdt)[k]

\* C11: integrate called with an alignment offset returns, without raising,
\* a mass series whose curve is the cumulative series shifted by one constant
\* (so that it passes through the reference value); called with no offset
\* it returns the unshifted cumulative series.
C11_IntegrateAligned ==
    Integrated =>
        /\ ret.kind = "series"
        /\ ret.s.cls = "MassChangeDataSeries"
        /\ Len(ret.s.dM) = Len(self.dmdt)
        /\ offset = NoneOffset => ret.s.dM = CumSum(self.dmdt)
        /\ offset /= NoneOffset =>
             \E c \in -8..8 : \A k \in 1..Len(self.dmdt) :
                 ret.s.dM[k] = CumSum(self.dmdt)[k] + c

---------------------------------------------------------------------------
\* derive_rates.  The result's t0 and t1 are the slices t[:-1] and t[1:] of
\* the source's time array: numpy slices are views, so the three arrays
\* share one buffer until the result's arrays are rebound.

\* x[:-1] and x[1:]
AllButLast(x) == SubSeq(x, 1, Len(x) - 1)
AllButFirst(x) == SubSeq(x, 2, Len(x))

\* the differences taken the other way round
Diff_backward(x) == [k \in 1..(Len(x) - 1) |-> x[k] - x[k + 1]]

\* np.diff
Diff(x) == [k \in 1..(Len(x) - 1) |-> x[k + 1] - x[k]]

\* A mass series that exposes its values under the names mass and errs, the
\* names derive_rates and process read; the class of mass_series.py stores
\* them as dM and dM_err.
MassSeries(m) == [cls |-> "MassSeries", id |-> m.id, t |-> m.t, mass |-> m.dM, errs |-> m.dM_err, a |-> m.a]

\* MassRateDataSeries.derive_rates(mass_data)
MassRateDataSeries_derive_rates(mdata) ==
    IF ~HasAttr(mdata, "mass") THEN Raise("AttributeError")
    ELSE IF ~HasAttr(mdata, "errs") THEN Raise("AttributeError")
    ELSE LET t0 == AllButLast(mdata.t)
             t1 == AllButFirst(mdata.t)
             dmdt == Diff(mdata.mass)
             area == IF mdata.a.some
                     THEN Some(HalfArr(AddArr(AllButLast(mdata.a.v), AllButFirst(mdata.a.v))))
                     ELSE NoneArr
         IN  RetSeries(MassRateDataSeries(
                 mdata.id.user, mdata.id.user_group, mdata.id.data_group,
                 mdata.id.basin_group, mdata.id.basin_id, mdata.id.basin_area,
                 t0, t1, area, dmdt, mdata.errs, TRUE, FALSE, mdata.id.aggregated))

\* arr[ok] raises IndexError when the mask and the array differ in length,
\* and TypeError when arr is None
MaskFails(arr, ok) == Len(arr) /= Len(ok)

\* The five rebindings of lines 48-52 and 63-67, in order, on a series whose
\* t0 and t1 are views of the buffer t: the first that fails ends the call
\* and leaves the later arrays as they were.
RebindViews(s, t, ok) ==
    LET s3 == [s EXCEPT !.t0 = Mask(AllButLast(t), ok), !.t1 = Mask(AllButFirst(t), ok),
                        !.dmdt = Mask(s.dmdt, ok)]
    IN  IF MaskFails(s.errs, ok) THEN [self |-> s3, ret |-> Raise("IndexError")]
        ELSE IF ~s.a.some THEN [self |-> [s3 EXCEPT !.errs = Mask(s.errs, ok)], ret |-> Raise("TypeError")]
        ELSE [self |-> [s3 EXCEPT !.errs = Mask(s.errs, ok), !.a = Some(Mask(s.a.v, ok))], ret |-> RetNone]

\* the loop of _set_min_time run on copies of the slices: the buffer is left alone
MinTimeLoopOnViews_copy(t, n, m) == t

\* The loop of _set_min_time on the views of a buffer t holding n samples:
\* self.t0[i] = min_t writes t[i].
MinTimeLoopOnViews(t, n, m) == [i \in 1..Len(t) |-> IF i <= n THEN ClipLow(t[i], m) ELSE t[i]]

\* The loop of _set_max_time on the views: self.t1[i] = max_t writes t[i + 1].
MaxTimeLoopOnViews(t, n, m) == [i \in 1..Len(t) |-> IF i >= 2 /\ i <= n + 1 THEN ClipHigh(t[i], m) ELSE t[i]]

\* _set_min_time(min_t) on a series s whose t0, t1 are views of t.  The test
\* of self.t1[i] reads t[i + 1], which the loop has not written yet.
SetMinTimeOnViews(s, t, m) ==
    LET n == Len(AllButLast(t))
        tw == MinTimeLoopOnViews(t, n, m)
        ok == [i \in 1..n |-> KeepLow(t[i + 1], m)]
    IN  [t |-> tw] @@ RebindViews(s, tw, ok)

\* _set_max_time(max_t) on a series s whose t0, t1 are views of t.  The test
\* of self.t0[i] reads t[i], which the previous turn of the loop has written.
SetMaxTimeOnViews(s, t, m) ==
    LET n == Len(AllButLast(t))
        tw == MaxTimeLoopOnViews(t, n, m)
        ok == [i \in 1..n |-> KeepHigh(tw[i], m)]
    IN  [t |-> tw] @@ RebindViews(s, tw, ok)

---------------------------------------------------------------------------
\* Specification of derive_rates: a mass series is drawn and differentiated;
\* the result is then windowed by one of the two mutators, or integrated
\* back.  old keeps the source as it was when drawn.

InitDerive ==
    /\ pc = "start"
    /\ ret = NoCall
    /\ a = NoSeries /\ b = NoSeries /\ self = NoSeries
    /\ min_t = 0 /\ max_t = 0 /\ offset = NoneOffset
    /\ \/ \E n \in 0..(MaxLen + 1) : \E t \in StrictSeqs(n), ss \in SampleSeqs(n) :
            LET m == MassInput(PlainProfile, PlainFlags, t, ss)
            IN  mass_data \in {m, MassSeries(m), MassSeries([m EXCEPT !.a = NoneArr])}
       \/ \E n \in Lens, p \in Profiles, f \in Flags :
            LET m == MassInput(p, f, Grid(n), [k \in 1..n |-> LowSample])
            IN  mass_data \in {m, MassSeries(m)}
    /\ old = mass_data
    /\ chunks = NoChunks
    /\ NoProcess
    /\ NoOutput

DeriveRates ==
    /\ pc = "start"
    /\ LET r == MassRateDataSeries_derive_rates(mass_data)
       IN  /\ ret' = r
           /\ self' = IF r.kind = "series" THEN r.s ELSE NoSeries
    /\ pc' = "derived"
    /\ UNCHANGED <<a, b, old, min_t, max_t, offset, mass_data>>
    /\ UNCHANGED chunks
    /\ UNCHANGED process_vars
    /\ UNCHANGED output_vars

SetMinTimeDerived ==
    /\ pc = "derived"
    /\ ret.kind = "series"
    /\ \E m \in Times :
         LET w == SetMinTimeOnViews(self, mass_data.t, m)
         IN  /\ min_t' = m
             /\ self' = w.self
             /\ mass_data' = [mass_data EXCEPT !.t = w.t]
             /\ ret' = w.ret
    /\ pc' = "derived_min_set"
    /\ UNCHANGED <<a, b, old, max_t, offset>>
    /\ UNCHANGED chunks
    /\ UNCHANGED process_vars
    /\ UNCHANGED output_vars

SetMaxTimeDerived ==
    /\ pc = "derived"
    /\ ret.kind = "series"
    /\ \E m \in Times :
         LET w == SetMaxTimeOnViews(self, mass_data.t, m)
         IN  /\ max_t' = m
             /\ self' = w.self
             /\ mass_data' = [mass_data EXCEPT !.t = w.t]
             /\ ret' = w.ret
    /\ pc' = "derived_max_set"
    /\ UNCHANGED <<a, b, old, min_t, offset>>
    /\ UNCHANGED chunks
    /\ UNCHANGED process_vars
    /\ UNCHANGED output_vars

IntegrateDerived ==
    /\ pc = "derived"
    /\ ret.kind = "series"
    /\ \E off \in Offsets :
         /\ offset' = off
         /\ ret' = MassRateDataSeries_integrate(self, off)
    /\ pc' = "reintegrated"
    /\ UNCHANGED <<a, b, self, old, min_t, max_t, mass_data>>
    /\ UNCHANGED chunks
    /\ UNCHANGED process_vars
    /\ UNCHANGED output_vars

NextDerive == DeriveRates \/ SetMinTimeDerived \/ SetMaxTimeDerived \/ IntegrateDerived

SpecDerive == InitDerive /\ [][NextDerive]_vars

---------------------------------------------------------------------------
\* Properties of derive_rates (under SpecDerive)

Derived == pc = "derived"
MassOf(m) == IF HasAttr(m, "mass") THEN m.mass ELSE m.dM
MassErrorOf(m) == IF HasAttr(m, "errs") THEN m.errs ELSE m.dM_err

\* C12: derive_rates of a mass series with n >= 1 samples yields n - 1 rate
\* samples; sample k has value mass[k+1] - mass[k], start t[k] and end
\* t[k+1]; the result carries the source identity with computed = True and
\* the source's aggregated flag.
C12_FirstDifferences ==
    (Derived /\ Len(old.t) >= 1) =>
        /\ ret.kind = "series"
        /\ Len(ret.s.dmdt) = Len(old.t) - 1
        /\ Len(ret.s.t0) = Len(old.t) - 1
        /\ Len(ret.s.t1) = Len(old.t) - 1
        /\ \A k \in 1..(Len(old.t) - 1) :
             /\ ret.s.dmdt[k] = MassOf(old)[k + 1] - MassOf(old)[k]
             /\ ret.s.t0[k] = old.t[k]
             /\ ret.s.t1[k] = old.t[k + 1]
        /\ ret.s.id = [old.id EXCEPT !.computed = TRUE, !.merged = FALSE]

\* The same of the sources that expose mass and errs: the body of
\* derive_rates computes the first differences.
DeriveBodyFirstDifferences ==
    (Derived /\ Len(old.t) >= 1 /\ HasAttr(old, "mass")) =>
        /\ ret.kind = "series"
        /\ Len(ret.s.dmdt) = Len(old.t) - 1
        /\ \A k \in 1..(Len(old.t) - 1) :
             /\ ret.s.dmdt[k] = MassOf(old)[k + 1] - MassOf(old)[k]
             /\ ret.s.t0[k] = old.t[k]
             /\ ret.s.t1[k] = old.t[k + 1]
        /\ ret.s.id = [old.id EXCEPT !.computed = TRUE, !.merged = FALSE]

\* C13: for a source with at least one sample, the t0, t1, rate, error and
\* area arrays of the derived series have one common length, and its error
\* values are the source's, carried forward unmodified.
C13_OneLengthErrorsCarried ==
    (Derived /\ Len(old.t) >= 1) =>
        /\ ret.kind = "series"
        /\ Len(ret.s.t1) = Len(ret.s.t0)
        /\ Len(ret.s.dmdt) = Len(ret.s.t0)
        /\ Len(ret.s.errs) = Len(ret.s.t0)
        /\ ret.s.a.some => Len(ret.s.a.v) = Len(ret.s.t0)
        /\ \A k \in 1..Len(ret.s.errs) : ret.s.errs[k] = MassErrorOf(old)[k]

\* the derived series of a source that exposes mass and errs: one error
\* more than it has samples
DerivedErrorsOneLonger ==
    (Derived /\ HasAttr(old, "mass")) =>
        /\ ret.kind = "series"
        /\ ret.s.errs = old.errs
        /\ Len(old.t) >= 1 => Len(ret.s.errs) = Len(ret.s.t0) + 1

Reintegrated == pc = "reintegrated"

\* C14: integrate(derive_rates(m)) returns a mass series equal to m up to
\* one additive constant: every difference of consecutive samples of m is
\* the difference of the same two samples of the reconstruction.
C14_RoundTrip ==
    /\ Derived => ret.kind = "series"
    /\ Reintegrated =>
         /\ ret.kind = "series"
         /\ Len(ret.s.dM) = Len(old.t)
         /\ \A k \in 1..(Len(old.t) - 1) :
              ret.s.dM[k + 1] - ret.s.dM[k] = MassOf(old)[k + 1] - MassOf(old)[k]

DerivedWindowed == pc \in {"derived_min_set", "derived_max_set"}

---------------------------------------------------------------------------
\* chunk_rates.  The samples of a rate series are handed to the combination
\* engine ts_combine as chunks of (time, value) points; the engine's result
\* is the time base and the values of the working series.

\* ok = self.t0 == self.t1
IsPoint(s) == [i \in 1..Len(s.t0) |-> s.t0[i] = s.t1[i]]

\* a chunk of the start alone
IntervalChunk_start(lo, hi) == <<lo>>

\* np.asarray([lo, hi])
IntervalChunk(lo, hi) == <<lo, hi>>

\* the indices the loop does not skip
IntervalSamples(s) == Mask([i \in 1..Len(s.t0) |-> i], [i \in 1..Len(s.t0) |-> ~IsPoint(s)[i]])

\* time_chunks, dmdt_chunks, errs_chunks as they stand when the loop ends
ChunkLists(s) ==
    LET ok == IsPoint(s)
        iv == IntervalSamples(s)
    IN  [time_chunks |-> <<Mask(s.t0, ok)>> \o [k \in 1..Len(iv) |-> IntervalChunk(s.t0[iv[k]], s.t1[iv[k]])],
         dmdt_chunks |-> <<Mask(s.dmdt, ok)>> \o [k \in 1..Len(iv) |-> IntervalChunk(s.dmdt[iv[k]], s.dmdt[iv[k]])],
         errs_chunks |-> <<Mask(s.errs, ok)>> \o [k \in 1..Len(iv) |-> IntervalChunk(s.errs[iv[k]], s.errs[iv[k]])]]

\* The combination engine.  A chunk covers the grid times from its first to
\* its last point; at a grid time it contributes its points at that time,
\* or, between two of its points, the value held since the earlier one.
\* The contributions of all chunks at one time are pooled.
ChunkSpan(ct) == IF Len(ct) = 0 THEN {} ELSE ct[1]..ct[Len(ct)]
PointsAt(ct, cv, x) == Mask(cv, [i \in 1..Len(ct) |-> ct[i] = x])
HeldAt(ct, cv, x) == cv[CHOOSE i \in 1..Len(ct) : ct[i] < x /\ \A j \in 1..Len(ct) : ct[j] < x => j <= i]
ChunkAt(ct, cv, x) ==
    IF x \notin ChunkSpan(ct) THEN <<>>
    ELSE IF PointsAt(ct, cv, x) /= <<>> THEN PointsAt(ct, cv, x)
    ELSE <<HeldAt(ct, cv, x)>>
AllAt(tcs, vcs, x) ==
    LET F[c \in 0..Len(tcs)] == IF c = 0 THEN <<>> ELSE F[c - 1] \o ChunkAt(tcs[c], vcs[c], x)
    IN  F[Len(tcs)]
SeqSum(x) == IF Len(x) = 0 THEN 0 ELSE CumSum(x)[Len(x)]

\* The pooled value of n contributions, kept exact: the mean is sum / n, the
\* quadrature error is sqrt(rss) / n.
Pool(vals, error) ==
    IF error THEN [rss |-> SeqSum(Square(vals)), n |-> Len(vals)]
    ELSE [sum |-> SeqSum(vals), n |-> Len(vals)]

ts_combine(tcs, vcs, error) ==
    LET grid == SortedSeq(UNION {ChunkSpan(tcs[c]) : c \in 1..Len(tcs)})
    IN  [t |-> grid, y |-> [k \in 1..Len(grid) |-> Pool(AllAt(tcs, vcs, grid[k]), error)]]

\* MassRateDataSeries.chunk_rates: the area handed on is self.a as it is
MassRateDataSeries_chunk_rates(s) ==
    LET ch == ChunkLists(s)
        rates == ts_combine(ch.time_chunks, ch.dmdt_chunks, FALSE)
        errors == ts_combine(ch.time_chunks, ch.errs_chunks, TRUE)
    IN  WorkingMassRateDataSeries(s.id.user, s.id.user_group, s.id.data_group, s.id.basin_group, s.id.basin_id, s.id.basin_area, rates.t, s.a, rates.y, errors.y, FALSE, FALSE, s.id.aggregated)

\* WorkingMassRateDataSeries.chunk_rates
WorkingMassRateDataSeries_chunk_rates(s) == s

---------------------------------------------------------------------------
\* Specification of chunk_rates: a rate series of point and interval samples,
\* or a working series, is drawn and chunked.

\* how far an interval sample ends after its start
Widths == 0..2

ChunkInput(f, t, w, ss) == MassRateDataSeries(PlainProfile.user, PlainProfile.user_group, PlainProfile.data_group, f.basin_group, PlainProfile.basin_id, PlainProfile.basin_area, t, [k \in 1..Len(t) |-> t[k] + w[k]], Some(AreasOf(ss)), ValuesOf(ss), ErrorsOf(ss), f.computed, FALSE, f.aggregated)

InitChunk ==
    /\ pc = "start"
    /\ ret = NoCall
    /\ a = NoSeries /\ b = NoSeries /\ old = NoSeries /\ mass_data = NoSeries
    /\ min_t = 0 /\ max_t = 0 /\ offset = NoneOffset
    /\ chunks = NoChunks
    /\ \/ \E n \in Lens : \E t \in AscSeqs(n), w \in [1..n -> Widths], ss \in SampleSeqs(n) :
            self = ChunkInput(PlainFlags, t, w, ss)
       \/ \E n \in Lens, f \in Flags : \E w \in [1..n -> Widths] :
            self = ChunkInput(f, Grid(n), w, [k \in 1..n |-> LowSample])
       \/ \E n \in Lens : \E ss \in SampleSeqs(n) :
            self = WorkInput(PlainProfile, PlainFlags, Grid(n), Some(AreasOf(ss)), ss)
    /\ NoProcess
    /\ NoOutput

ChunkRates ==
    /\ pc = "start"
    /\ self.cls = "MassRateDataSeries"
    /\ chunks' = ChunkLists(self)
    /\ ret' = RetSeries(MassRateDataSeries_chunk_rates(self))
    /\ pc' = "chunked"
    /\ UNCHANGED <<a, b, self, old, min_t, max_t, offset, mass_data>>
    /\ UNCHANGED process_vars
    /\ UNCHANGED output_vars

ChunkWork ==
    /\ pc = "start"
    /\ self.cls = "WorkingMassRateDataSeries"
    /\ ret' = RetSeries(WorkingMassRateDataSeries_chunk_rates(self))
    /\ pc' = "chunked"
    /\ UNCHANGED <<a, b, self, old, min_t, max_t, offset, mass_data, chunks>>
    /\ UNCHANGED process_vars
    /\ UNCHANGED output_vars

NextChunk == ChunkRates \/ ChunkWork

SpecChunk == InitChunk /\ [][NextChunk]_vars

---------------------------------------------------------------------------
\* Properties of chunk_rates (under SpecChunk)

ChunkedRate == pc = "chunked" /\ self.cls = "MassRateDataSeries"
PointIdx == SelectSeq([i \in 1..Len(self.t0) |-> i], LAMBDA i : self.t0[i] = self.t1[i])
IntervalIdx == SelectSeq([i \in 1..Len(self.t0) |-> i], LAMBDA i : self.t0[i] /= self.t1[i])

\* C15 as claimed: the engine is handed one chunk per sample, the chunk of
\* sample i being its one point (t0 = t1) or its two points (t0, t1) with
\* the rate, and the error, at each point; the three lists have one length.
C15_OneChunkPerSample ==
    ChunkedRate =>
        /\ Len(chunks.time_chunks) = Len(self.t0)
        /\ Len(chunks.dmdt_chunks) = Len(chunks.time_chunks)
        /\ Len(chunks.errs_chunks) = Len(chunks.time_chunks)
        /\ \A i \in 1..Len(self.t0) :
             /\ chunks.time_chunks[i] = IF self.t0[i] = self.t1[i] THEN <<self.t0[i]>> ELSE <<self.t0[i], self.t1[i]>>
             /\ Len(chunks.dmdt_chunks[i]) = Len(chunks.time_chunks[i])
             /\ Len(chunks.errs_chunks[i]) = Len(chunks.time_chunks[i])

\* C15: the engine is handed a first chunk holding all the point samples
\* (t0 = t1) of the series in order, empty when there is none, then one
\* two-point chunk per interval sample with times (t0, t1) and the rate at
\* both points; the error chunks have the same times and the error at both
\* points; the three lists have one length.
C15_PointsShareFirstChunk ==
    ChunkedRate =>
        /\ Len(chunks.time_chunks) = 1 + Len(IntervalIdx)
        /\ Len(chunks.dmdt_chunks) = Len(chunks.time_chunks)
        /\ Len(chunks.errs_chunks) = Len(chunks.time_chunks)
        /\ chunks.time_chunks[1] = [k \in 1..Len(PointIdx) |-> self.t0[PointIdx[k]]]
        /\ chunks.dmdt_chunks[1] = [k \in 1..Len(PointIdx) |-> self.dmdt[PointIdx[k]]]
        /\ chunks.errs_chunks[1] = [k \in 1..Len(PointIdx) |-> self.errs[PointIdx[k]]]
        /\ \A k \in 1..Len(IntervalIdx) :
             LET i == IntervalIdx[k]
             IN  /\ chunks.time_chunks[k + 1] = <<self.t0[i], self.t1[i]>>
                 /\ chunks.dmdt_chunks[k + 1] = <<self.dmdt[i], self.dmdt[i]>>
                 /\ chunks.errs_chunks[k + 1] = <<self.errs[i], self.errs[i]>>

\* a point sample before and after an interval sample: one chunk of the two
\* points, one chunk of the interval
C15_Witness ==
    /\ ChunkedRate
    /\ Len(self.t0) = MaxLen
    /\ Len(PointIdx) >= 1
    /\ Len(IntervalIdx) >= 1
    /\ Len(chunks.time_chunks) = 1 + Len(IntervalIdx)
    /\ Len(chunks.time_chunks[1]) = Len(PointIdx)

\* C16: the working series chunk_rates returns for a rate series has t,
\* rate, error and area of one common length.
C16_WorkingOneLength ==
    ChunkedRate =>
        /\ ret.kind = "series"
        /\ Len(ret.s.dmdt) = Len(ret.s.t)
        /\ Len(ret.s.errs) = Len(ret.s.t)
        /\ ret.s.a.some
        /\ Len(ret.s.a.v) = Len(ret.s.t)

---------------------------------------------------------------------------
\* process.  A series is here its class, the four identity fields the
\* pipeline selects on, and a tag telling where it came from; the calls made
\* on it are the ones modelled above.

\* sheets = [IceSheet.apis, IceSheet.eais, IceSheet.wais, IceSheet.gris]
IceSheets == <<"apis", "eais", "wais", "gris">>

\* the table with gris last: the region loops leave sheets bound to one sheet
Regions_gris_last == <<[region |-> "eais", sheets |-> <<"eais">>],
                       [region |-> "apis", sheets |-> <<"apis">>],
                       [region |-> "wais", sheets |-> <<"wais">>],
                       [region |-> "ais", sheets |-> <<"apis", "eais", "wais">>],
                       [region |-> "all", sheets |-> <<"apis", "eais", "wais", "gris">>],
                       [region |-> "gris", sheets |-> <<"gris">>]>>

\* regions, in the order of the table
Regions == <<[region |-> "eais", sheets |-> <<"eais">>],
             [region |-> "apis", sheets |-> <<"apis">>],
             [region |-> "wais", sheets |-> <<"wais">>],
             [region |-> "ais", sheets |-> <<"apis", "eais", "wais">>],
             [region |-> "gris", sheets |-> <<"gris">>],
             [region |-> "all", sheets |-> <<"apis", "eais", "wais", "gris">>]>>

\* groups, after include_la and methods_skip
Groups(cfg) == SelectSeq(<<"RA", "GMB", "IOM">> \o (IF cfg.include_la THEN <<"LA">> ELSE <<>>), LAMBDA g : g \notin cfg.methods_skip)

\* The collections: ordered multisets of series.  A collection is false when
\* empty; average and sum of an empty collection are absent, and of another
\* are absent or one series of the unified scheme.
Filter(coll, kw) == SelectSeq(coll, LAMBDA x : \A k \in DOMAIN kw : x.id[k] \in kw[k])
add_series(coll, s) == Append(coll, s)
first(coll) == IF coll = <<>> THEN NoSeries ELSE coll[1]
average(coll) == IF coll = <<>> THEN {NoSeries} ELSE {NoSeries, [coll[1] EXCEPT !.id.basin_group = BasinGroup_sheets, !.tag = <<0, 0>>]}
sum(coll) == IF coll = <<>> THEN {NoSeries} ELSE {NoSeries, [coll[1] EXCEPT !.id.basin_group = BasinGroup_sheets, !.tag = <<0, 1>>]}

\* Collection.integrate(offset=offset): every member integrated in turn
Collection_integrate(coll, off) ==
    LET r == [k \in 1..Len(coll) |-> WorkingMassRateDataSeries_integrate(coll[k], off)]
        failed == {k \in 1..Len(coll) : r[k].kind = "raise"}
    IN  IF failed /= {} THEN r[SetMin(failed)] ELSE RetNone

\* prepare_collection: chunk_series or to_dmdt, by the class of the
\* collection; either gives working rate series of the same identities
prepare_collection(collection) == [k \in 1..Len(collection.series) |-> [collection.series[k] EXCEPT !.cls = "WorkingMassRateDataSeries"]]

\* the series added whether or not one is there already
AddIfNew_always(coll, series) == add_series(coll, series)

\* existing = rate_data.filter(...); if not existing: rate_data.add_series(series)
AddIfNew(coll, series) ==
    LET existing == Filter(coll, [user_group |-> {series.id.user_group},
                                  user |-> {series.id.user},
                                  basin_id |-> {series.id.basin_id},
                                  basin_group |-> {series.id.basin_group}])
    IN  IF existing = <<>> THEN add_series(coll, series) ELSE coll

\* nothing taken for None
IsNone_never(x) == FALSE

\* new_series is None
IsNone(x) == x = NoSeries

\* region_rate.basin_id = region
WithBasin(series, region) == [series EXCEPT !.id.basin_id = region]

\* rate.add_series(series); mass.add_series(series.integrate(offset=offset)):
\* the rate collection has the series before integrate is called
AddRateThenMass(cols, rate, mass, series, off) ==
    LET m == WorkingMassRateDataSeries_integrate(series, off)
        c1 == [cols EXCEPT ![rate] = add_series(@, series)]
    IN  IF m.kind = "raise" THEN [collections |-> c1, ret |-> m]
        ELSE [collections |-> [c1 EXCEPT ![mass] = add_series(@, m.s)], ret |-> RetNone]

\* region_mass = region_rate.integrate(offset=offset), then both add_series
IntegrateThenAdd(cols, rate, mass, series, off) ==
    LET m == WorkingMassRateDataSeries_integrate(series, off)
    IN  IF m.kind = "raise" THEN [collections |-> cols, ret |-> m]
        ELSE [collections |-> [cols EXCEPT ![rate] = add_series(@, series), ![mass] = add_series(@, m.s)], ret |-> RetNone]

\* for line in zip(data.t, data.dmdt, data.errs): the records of one file
ExportLines(data) == [k \in 1..Len(data.t) |-> <<data.t[k], data.dmdt[k], data.errs[k]>>]

---------------------------------------------------------------------------
\* Specification of process: from the ingest loop to the first exception.
\* The plots, tables and files of lines 223 to 838 come after the call of
\* integrate at line 220, which raises, and are never reached.

Keys == {[user_group |-> "RA", user |-> "helm", basin_id |-> "apis", basin_group |-> "sheets"],
         [user_group |-> "RA", user |-> "zwally", basin_id |-> "apis", basin_group |-> "sheets"],
         [user_group |-> "RA", user |-> "helm", basin_id |-> "apis", basin_group |-> "zwally"],
         [user_group |-> "GMB", user |-> "helm", basin_id |-> "gris", basin_group |-> "sheets"]}

\* collection c of the input: a series per key, tagged by its position
InputCollection(cls, series_cls, keys, c) == [cls |-> cls, series |-> [k \in 1..Len(keys) |-> [cls |-> series_cls, id |-> keys[k], tag |-> <<c, k>>]]]

\* os.makedirs(output_path)
makedirs(dir) == [exists |-> TRUE, listdir |-> {}]

\* shutil.rmtree(output_path): the tree is removed, the directory with it
rmtree(dir) == [exists |-> FALSE, listdir |-> {}]

\* the directory at output_path: absent, empty, or holding files
Directories == {[exists |-> FALSE, listdir |-> {}]} \cup [exists : {TRUE}, listdir : {{}, {"old.csv"}}]

\* answers to the prompt of line 54, and choice.lower()
Choices == {"", "y", "Y", "n", "N", "yes"}
lower(choice) == IF choice = "Y" THEN "y" ELSE IF choice = "N" THEN "n" ELSE choice

\* (not choice.lower() == 'y') and choice
Cancelled(choice) == lower(choice) /= "y" /\ choice /= ""

Configs == [include_la : BOOLEAN, methods_skip : {{}, {"IOM"}}, export_data : BOOLEAN, align_date : Offsets]
DefaultConfig == [include_la |-> FALSE, methods_skip |-> {}, export_data |-> TRUE, align_date |-> "align_date"]

InitProcess ==
    /\ pc = "start"
    /\ output_path \in Directories
    /\ old_path = output_path
    /\ ret = NoCall
    /\ a = NoSeries /\ b = NoSeries /\ self = NoSeries /\ old = NoSeries /\ mass_data = NoSeries
    /\ min_t = 0 /\ max_t = 0 /\ chunks = NoChunks
    /\ \/ /\ config \in Configs
          /\ input_data = <<>>
       \/ /\ config = DefaultConfig
          /\ \E n1 \in Lens, n2 \in Lens : \E k1 \in [1..n1 -> Keys], k2 \in [1..n2 -> Keys] :
                input_data = <<InputCollection("MassRateCollection", "MassRateDataSeries", k1, 1),
                               InputCollection("MassChangeCollection", "MassChangeDataSeries", k2, 2)>>
    /\ offset = config.align_date
    /\ rate_collection = <<>>
    /\ collections = [groups_sheets_rate |-> <<>>, groups_sheets_mass |-> <<>>,
                      groups_regions_rate |-> <<>>, groups_regions_mass |-> <<>>,
                      sheets_rate |-> <<>>, sheets_mass |-> <<>>,
                      regions_rate |-> <<>>, regions_mass |-> <<>>]
    /\ loop = [collection |-> 1, series |-> 1, group |-> 1, item |-> 1, over |-> <<>>]
    /\ sheets = IceSheets
    /\ files = <<>>
    /\ NoOutput

series_vars == <<a, b, self, old, min_t, max_t, offset, mass_data, chunks>>

\* lines 46-58: the output directory is made if absent; if it holds
\* anything the user is asked, and it is removed unless the user declines
CheckOutputPath ==
    /\ pc = "start"
    /\ LET made == IF ~output_path.exists THEN makedirs(output_path) ELSE output_path
       IN  IF made.listdir /= {}
           THEN \E choice \in Choices :
                   IF Cancelled(choice)
                   THEN /\ pc' = "cancelled" /\ ret' = RetNone /\ output_path' = made
                   ELSE /\ pc' = "ingest" /\ ret' = ret /\ output_path' = rmtree(made)
           ELSE /\ pc' = "ingest" /\ ret' = ret /\ output_path' = made
    /\ UNCHANGED <<config, input_data, rate_collection, collections, loop, sheets, files, old_path, series_vars>>
    /\ UNCHANGED output_vars

\* lines 74-80, one series of the collection at hand
IngestSeries ==
    /\ pc = "ingest"
    /\ loop.collection <= Len(input_data)
    /\ LET collection == prepare_collection(input_data[loop.collection])
       IN  /\ loop.series <= Len(collection)
           /\ rate_collection' = AddIfNew(rate_collection, collection[loop.series])
    /\ loop' = [loop EXCEPT !.series = @ + 1]
    /\ UNCHANGED <<pc, ret, config, input_data, collections, sheets, files, output_path, old_path, series_vars>>
    /\ UNCHANGED output_vars

\* line 72, the next collection
IngestNextCollection ==
    /\ pc = "ingest"
    /\ loop.collection <= Len(input_data)
    /\ loop.series > Len(prepare_collection(input_data[loop.collection]))
    /\ loop' = [loop EXCEPT !.collection = @ + 1, !.series = 1]
    /\ UNCHANGED <<pc, ret, config, input_data, rate_collection, collections, sheets, files, output_path, old_path, series_vars>>
    /\ UNCHANGED output_vars

\* lines 82-118: sum_basins and merge keep a collection that has a series
\* non-empty; rate_data.integrate(offset=offset) integrates every series
IntegrateAll ==
    /\ pc = "ingest"
    /\ loop.collection > Len(input_data)
    /\ LET r == Collection_integrate(rate_collection, offset)
       IN  IF r.kind = "raise"
           THEN /\ ret' = r /\ pc' = "raised" /\ UNCHANGED loop
           ELSE /\ pc' = "group_sheets"
                /\ loop' = [loop EXCEPT !.group = 1, !.item = 1, !.over = sheets]
                /\ UNCHANGED ret
    /\ UNCHANGED <<config, input_data, rate_collection, collections, sheets, files, output_path, old_path, series_vars>>
    /\ UNCHANGED output_vars

\* continue: on to the next turn of the loop
Skip ==
    /\ loop' = [loop EXCEPT !.item = @ + 1]
    /\ UNCHANGED <<pc, ret, collections>>

\* the series added; an exception of integrate leaves process
Added(r) ==
    /\ collections' = r.collections
    /\ IF r.ret.kind = "raise"
       THEN /\ ret' = r.ret /\ pc' = "raised" /\ UNCHANGED loop
       ELSE /\ loop' = [loop EXCEPT !.item = @ + 1] /\ UNCHANGED <<pc, ret>>

\* lines 121-138, one sheet of one group
GroupSheet ==
    /\ pc = "group_sheets"
    /\ loop.group <= Len(Groups(config))
    /\ loop.item <= Len(loop.over)
    /\ LET group == Groups(config)[loop.group]
           sheet == loop.over[loop.item]
       IN  \E new_series \in average(Filter(rate_collection, [user_group |-> {group}, basin_id |-> {sheet}])) :
              IF IsNone(new_series) THEN Skip
              ELSE Added(AddRateThenMass(collections, "groups_sheets_rate", "groups_sheets_mass", new_series, offset))
    /\ UNCHANGED <<config, input_data, rate_collection, sheets, files, output_path, old_path, series_vars>>
    /\ UNCHANGED output_vars

GroupSheetsDone ==
    /\ pc = "group_sheets"
    /\ loop.group <= Len(Groups(config))
    /\ loop.item > Len(loop.over)
    /\ pc' = "group_regions"
    /\ loop' = [loop EXCEPT !.item = 1]
    /\ UNCHANGED <<ret, config, input_data, rate_collection, collections, sheets, files, output_path, old_path, series_vars>>
    /\ UNCHANGED output_vars

\* lines 139-153, one region of one group: the loop binds sheets
GroupRegion ==
    /\ pc = "group_regions"
    /\ loop.item <= Len(Regions)
    /\ sheets' = Regions[loop.item].sheets
    /\ LET group == Groups(config)[loop.group]
           region == Regions[loop.item].region
       IN  \E region_rate \in sum(Filter(collections.groups_sheets_rate, [user_group |-> {group}, basin_id |-> Elems(sheets')])) :
              IF IsNone(region_rate) THEN Skip
              ELSE Added(IntegrateThenAdd(collections, "groups_regions_rate", "groups_regions_mass", WithBasin(region_rate, region), offset))
    /\ UNCHANGED <<config, input_data, rate_collection, files, output_path, old_path, series_vars>>
    /\ UNCHANGED output_vars

\* line 120, the next group; line 121 reads sheets anew
GroupRegionsDone ==
    /\ pc = "group_regions"
    /\ loop.item > Len(Regions)
    /\ pc' = "group_sheets"
    /\ loop' = [loop EXCEPT !.group = @ + 1, !.item = 1, !.over = sheets]
    /\ UNCHANGED <<ret, config, input_data, rate_collection, collections, sheets, files, output_path, old_path, series_vars>>
    /\ UNCHANGED output_vars

GroupsDone ==
    /\ pc = "group_sheets"
    /\ loop.group > Len(Groups(config))
    /\ pc' = "sheets"
    /\ loop' = [loop EXCEPT !.item = 1, !.over = sheets]
    /\ UNCHANGED <<ret, config, input_data, rate_collection, collections, sheets, files, output_path, old_path, series_vars>>
    /\ UNCHANGED output_vars

\* lines 155-172, one sheet
SheetAverage ==
    /\ pc = "sheets"
    /\ loop.item <= Len(loop.over)
    /\ LET sheet == loop.over[loop.item]
       IN  \E sheet_rate_avg \in average(Filter(collections.groups_sheets_rate, [basin_id |-> {sheet}])) :
              IF IsNone(sheet_rate_avg) THEN Skip
              ELSE Added(AddRateThenMass(collections, "sheets_rate", "sheets_mass", sheet_rate_avg, offset))
    /\ UNCHANGED <<config, input_data, rate_collection, sheets, files, output_path, old_path, series_vars>>
    /\ UNCHANGED output_vars

SheetsDone ==
    /\ pc = "sheets"
    /\ loop.item > Len(loop.over)
    /\ pc' = "regions"
    /\ loop' = [loop EXCEPT !.item = 1]
    /\ UNCHANGED <<ret, config, input_data, rate_collection, collections, sheets, files, output_path, old_path, series_vars>>
    /\ UNCHANGED output_vars

\* lines 175-190, one region: the loop binds sheets
RegionSum ==
    /\ pc = "regions"
    /\ loop.item <= Len(Regions)
    /\ sheets' = Regions[loop.item].sheets
    /\ LET region == Regions[loop.item].region
       IN  \E region_rate \in sum(Filter(collections.sheets_rate, [basin_id |-> Elems(sheets')])) :
              IF IsNone(region_rate) THEN Skip
              ELSE Added(AddRateThenMass(collections, "regions_rate", "regions_mass", WithBasin(region_rate, region), offset))
    /\ UNCHANGED <<config, input_data, rate_collection, files, output_path, old_path, series_vars>>
    /\ UNCHANGED output_vars

RegionsDone ==
    /\ pc = "regions"
    /\ loop.item > Len(Regions)
    /\ pc' = "discharge"
    /\ UNCHANGED <<ret, loop, config, input_data, rate_collection, collections, sheets, files, output_path, old_path, series_vars>>
    /\ UNCHANGED output_vars

\* lines 193-220: the SMB file is read from a fixed path, and the series
\* built from it is integrated
Discharge ==
    /\ pc = "discharge"
    /\ \E found \in BOOLEAN :
         LET smb_rate_series == [cls |-> "WorkingMassRateDataSeries", id |-> [user_group |-> "SMB", user |-> "SMB", basin_id |-> "gris", basin_group |-> BasinGroup_sheets], tag |-> <<0, 2>>]
         IN  ret' = IF found THEN WorkingMassRateDataSeries_integrate(smb_rate_series, NoneOffset)
                    ELSE Raise("FileNotFoundError")
    /\ pc' = IF ret'.kind = "raise" THEN "raised" ELSE "discharge_integrated"
    /\ UNCHANGED <<loop, config, input_data, rate_collection, collections, sheets, files, output_path, old_path, series_vars>>
    /\ UNCHANGED output_vars

NextProcess ==
    \/ CheckOutputPath
    \/ IngestSeries \/ IngestNextCollection \/ IntegrateAll
    \/ GroupSheet \/ GroupSheetsDone \/ GroupRegion \/ GroupRegionsDone \/ GroupsDone
    \/ SheetAverage \/ SheetsDone \/ RegionSum \/ RegionsDone
    \/ Discharge

SpecProcess == InitProcess /\ [][NextProcess]_vars

---------------------------------------------------------------------------
\* Properties of process (under SpecProcess)

\* every series of the input, in the order the ingest loop walks them
Walk ==
    LET F[c \in 0..Len(input_data)] == IF c = 0 THEN <<>> ELSE F[c - 1] \o prepare_collection(input_data[c])
    IN  F[Len(input_data)]
KeyOf(x) == <<x.id.user_group, x.id.user, x.id.basin_id, x.id.basin_group>>
FirstPerKey(w) ==
    LET F[i \in 0..Len(w)] ==
            IF i = 0 THEN <<>>
            ELSE IF \E j \in 1..(i - 1) : KeyOf(w[j]) = KeyOf(w[i]) THEN F[i - 1]
            ELSE Append(F[i - 1], w[i])
    IN  F[Len(w)]
AfterIngest == pc \notin {"start", "cancelled", "ingest"} \/ (pc = "ingest" /\ loop.collection > Len(input_data))

\* C20: after the ingest loop the working rate collection holds, for each
\* (technique group, contributor, basin id, basin scheme) key of the input,
\* the first series walked with that key, unaltered, and no other series.
C20_FirstPerKeyKept ==
    AfterIngest =>
        /\ rate_collection = FirstPerKey(Walk)
        /\ \A i \in 1..Len(rate_collection), j \in 1..Len(rate_collection) :
             KeyOf(rate_collection[i]) = KeyOf(rate_collection[j]) => i = j

\* a later series of a key already held, discarded
C20_Witness ==
    /\ AfterIngest
    /\ Len(rate_collection) >= 2
    /\ Len(rate_collection) < Len(Walk)
    /\ \E i \in 1..Len(Walk) : \E j \in (i + 1)..Len(Walk) :
         /\ KeyOf(Walk[i]) = KeyOf(Walk[j])
         /\ Walk[i].tag[1] /= Walk[j].tag[1]

Identities(coll) == [k \in 1..Len(coll) |-> coll[k].id]

ProcessEnded == pc = "raised"

\* C18: when process ends with export_data set, each region of the table
\* has its file, holding one (time, value, error) record per sample of the
\* region's rate series, in the series' order; with export_data not set
\* there is no per-region file.
C18_RegionFilesWritten ==
    ProcessEnded =>
        IF config.export_data
        THEN \A r \in 1..Len(Regions) :
                LET region == Regions[r].region
                IN  /\ region \in DOMAIN files
                    /\ files[region] = ExportLines(first(Filter(collections.regions_rate, [basin_id |-> {region}])))
        ELSE DOMAIN files = {}


\* C21: whenever a per-sheet loop of process runs, for any technique group
\* and in the inter-group loop, it runs over exactly the four ice sheets
\* apis, eais, wais and gris, each once, although the region loops rebind
\* sheets in between.
C21_FourSheetsEachTime ==
    pc \in {"group_sheets", "sheets"} =>
        /\ Elems(loop.over) = {"apis", "eais", "wais", "gris"}
        /\ Len(loop.over) = 4

\* the inter-group sheet loop has run to its end after the loops of a second
\* and later group have run
C21_Witness ==
    /\ pc = "sheets"
    /\ Len(Groups(config)) >= 2
    /\ loop.group > Len(Groups(config))
    /\ loop.item > Len(loop.over)
    /\ sheets = Regions[Len(Regions)].sheets


\* process has gone on past the check of the output directory and is running
PastOutputCheck == pc \notin {"start", "cancelled", "raised"}

\* C22: once process has gone on past the check of the output directory
\* (found absent, found empty, or found holding files and the deletion
\* confirmed) the directory exists, and so is there when the first output
\* file is written; when the user declines, process returns with the
\* directory as it was found and with no output written.
C22_OutputDirectoryReady ==
    /\ PastOutputCheck => output_path.exists
    /\ pc = "cancelled" =>
          /\ ret = RetNone
          /\ output_path = old_path
          /\ files = <<>>


---------------------------------------------------------------------------
\* Specification of tabulate and save_data (imbie/data/output.py): data is an
\* ordered mapping from a name to a variable, a sequence of items; an item is
\* a numpy scalar, vector or matrix, [ndim, v], v holding its rows (a scalar
\* and a vector have one).

\* the rows of a matrix end to end
Concat(rows) ==
    LET F[i \in 0..Len(rows)] == IF i = 0 THEN <<>> ELSE F[i - 1] \o rows[i]
    IN  F[Len(rows)]

\* np.ravel(item): the elements of the item in a row, row after row
ravel(item) == Concat(item.v)

\* lines 24-30: the header names of one variable, from its first item;
\* name+'_'+str(i) for element i of several
HeaderOf(name, var) ==
    LET flat == ravel(var[1])
    IN  IF Len(flat) > 1 THEN [i \in 1..Len(flat) |-> name \o "_" \o ToString(i - 1)] ELSE <<name>>

\* izip(*data.values()): one tuple per position, as many as the shortest
\* variable has; none without variables
izip(vals) ==
    IF vals = <<>> THEN <<>>
    ELSE LET n == SetMin({Len(vals[k]) : k \in 1..Len(vals)})
         IN  [i \in 1..n |-> [k \in 1..Len(vals) |-> vals[k][i]]]

\* np.concatenate([np.ravel(item) for item in line])
concatenate(line) == Concat([k \in 1..Len(line) |-> ravel(line[k])])

\* tabulate(data, headers): the lines yielded, and how the iteration ends.
\* var[0] of an empty variable raises before the header is yielded.
tabulate(data, headers) ==
    LET names == [k \in 1..Len(data) |-> data[k].name]
        vals == [k \in 1..Len(data) |-> data[k].var]
        rows == [i \in 1..Len(izip(vals)) |-> concatenate(izip(vals)[i])]
    IN  IF headers /\ \E k \in 1..Len(data) : vals[k] = <<>>
        THEN [lines |-> <<>>, ret |-> Raise("IndexError")]
        ELSE [lines |-> (IF headers THEN <<Concat([k \in 1..Len(data) |-> HeaderOf(names[k], vals[k])])>> ELSE <<>>) \o rows,
              ret |-> RetNone]

\* save_data(data, fpath): the rows written to the file
save_data(data) == tabulate(data, TRUE)


\* data of no, one or two variables.  The items of a variable have one
\* shape: a scalar, a vector of 0, 1 or 2 elements, or a 2 x 2 matrix; their
\* elements count up from a base, so that each element of the data is told
\* from every other.
TabData ==
    LET Shapes == {[ndim |-> 0, n |-> 1], [ndim |-> 1, n |-> 0], [ndim |-> 1, n |-> 1], [ndim |-> 1, n |-> 2], [ndim |-> 2, n |-> 2]}
        Item(shape, base) ==
            CASE shape.ndim = 0 -> [ndim |-> 0, v |-> <<<<base + 1>>>>]
              [] shape.ndim = 1 -> [ndim |-> 1, v |-> <<[j \in 1..shape.n |-> base + j]>>]
              [] OTHER -> [ndim |-> 2, v |-> [r \in 1..shape.n |-> [j \in 1..shape.n |-> base + shape.n * (r - 1) + j]]]
        Variable(name, shape, len, k) == [name |-> name, var |-> [i \in 1..len |-> Item(shape, 100 * k + 10 * i)]]
    IN  {<<>>}
        \cup {<<Variable("t", s1, n1, 1)>> : s1 \in Shapes, n1 \in Lens}
        \cup {<<Variable("t", s1, n1, 1), Variable("dm", s2, n2, 2)>> : s1 \in Shapes, n1 \in Lens, s2 \in Shapes, n2 \in Lens}

InitTabulate ==
    /\ pc = "start"
    /\ ret = NoCall
    /\ a = NoSeries /\ b = NoSeries /\ mass_data = NoSeries /\ chunks = NoChunks
    /\ Idle
    /\ NoProcess
    /\ tab \in [data : TabData, headers : BOOLEAN]
    /\ lines = <<>>

\* for line in tabulate(data, headers): the iteration run to its end
Tabulate ==
    /\ pc = "start"
    /\ LET r == tabulate(tab.data, tab.headers)
       IN  lines' = r.lines /\ ret' = r.ret
    /\ pc' = "tabulated"
    /\ UNCHANGED <<a, b, self, old, min_t, max_t, offset, mass_data, chunks, process_vars, tab>>

\* save_data(data, fpath): tabulate is called with headers=True
SaveData ==
    /\ pc = "start"
    /\ LET r == save_data(tab.data)
       IN  lines' = r.lines /\ ret' = r.ret
    /\ tab' = [tab EXCEPT !.headers = TRUE]
    /\ pc' = "saved"
    /\ UNCHANGED <<a, b, self, old, min_t, max_t, offset, mass_data, chunks, process_vars>>

NextTabulate == Tabulate \/ SaveData

SpecTabulate == InitTabulate /\ [][NextTabulate]_vars

---------------------------------------------------------------------------
\* Properties of tabulate (under SpecTabulate)

\* the call tabulate(data, headers=True) has run to its end
TabulatedWithHeaders == pc = "tabulated" /\ tab.headers

\* the number of elements the items of a variable flatten to; an empty
\* variable has no item to tell
FlatLen(var) == IF var = <<>> THEN 1 ELSE Len(ravel(var[1]))

\* the header names the variable contributes: name_0 .. name_(k-1) for k > 1,
\* one column otherwise
Columns(name, var) ==
    IF FlatLen(var) > 1 THEN [i \in 1..FlatLen(var) |-> name \o "_" \o ToString(i - 1)] ELSE <<name>>

\* C23: tabulate(data, headers=True) yields the header first, then one line
\* per position of the zipped variables, in order, each the elements of the
\* items at that position end to end; a variable whose items flatten to
\* k > 1 elements gives the header names name_0 .. name_(k-1) and any other
\* variable one name; the header has as many columns as every data line.
C23_HeaderMatchesRows ==
    TabulatedWithHeaders =>
        LET data == tab.data
            vals == [k \in 1..Len(data) |-> data[k].var]
            n == IF vals = <<>> THEN 0 ELSE SetMin({Len(vals[k]) : k \in 1..Len(vals)})
        IN  /\ ret = RetNone
            /\ Len(lines) = n + 1
            /\ lines[1] = Concat([k \in 1..Len(data) |-> Columns(data[k].name, vals[k])])
            /\ \A i \in 1..n :
                 /\ lines[i + 1] = Concat([k \in 1..Len(data) |-> ravel(vals[k][i])])
                 /\ Len(lines[i + 1]) = Len(lines[1])

====
